---------------------------- MODULE Spec2Model ----------------------------
(***************************************************************************)
(* Model of the trajectory endpoint of the Tactical Scanner API            *)
(* (src/app/main.py, get_trajectory).                                      *)
(*                                                                         *)
(* Python floats are modelled as fixed-point numbers: the integer n stands *)
(* for the real n / Scale.  Every arithmetic operation rounds its exact    *)
(* result to the nearest representable number, as IEEE arithmetic does.    *)
(* Values returned by round(., 2) are integers counting hundredths.        *)
(***************************************************************************)
EXTENDS Integers, Sequences, FiniteSets

\* ------------------------------------------------------------ numbers ----

\* One unit of a float: 1.0 is Scale.
Scale == 100000

\* How many multiples of DistStep the requested distances reach on each side of 0.
MaxDistSteps == 6

Abs(a) == IF a < 0 THEN -a ELSE a

Sgn(a) == IF a < 0 THEN -1 ELSE IF a > 0 THEN 1 ELSE 0

\* The nearest integer to q + r/c, ties to even, for 0 <= r < c.
Nearest(q, r, c) ==
    IF r > c - r \/ (r = c - r /\ q % 2 = 1) THEN q + 1 ELSE q

\* <<q, r>> with a * b = q * Scale + r and 0 <= r < Scale, for a, b >= 0: the
\* exact product, put together from parts that each fit 32 bits.
MulParts(a, b) ==
    LET a1 == a \div Scale
        a0 == a % Scale
        b1 == b \div Scale
        b0 == b % Scale
        \* a0 * b0 = (u \div 100) * Scale + w, with b0 = 1000 * (b0 \div 1000) + b0 % 1000
        u  == a0 * (b0 \div 1000)
        w  == (u % 100) * 1000 + a0 * (b0 % 1000)
    IN  <<a1 * b1 * Scale + a1 * b0 + a0 * b1 + (u \div 100) + (w \div Scale),
          w % Scale>>

\* One decimal digit of a long division by c: from <<q, r>> with r < c to
\* <<10 q + m, 10 r - m c>>, m the digit.
DivDigit(qr, c) ==
    LET r  == qr[2]
        \* m * c <= 10 * r, without forming either product
        fits(m) == r >= m * (c \div 10) + ((m * (c % 10) + 9) \div 10)
        m  == CHOOSE k \in 0 .. 9 : fits(k) /\ (k = 9 \/ ~fits(k + 1))
    IN  <<10 * qr[1] + m, 10 * (r - m * (c \div 10)) - m * (c % 10)>>

\* <<q, r>> with a * Scale = q * c + r and 0 <= r < c, for a >= 0, c > 0: the
\* long division of a by c carried to the five decimals of Scale.
DivParts(a, c) ==
    DivDigit(DivDigit(DivDigit(DivDigit(DivDigit(<<a \div c, a % c>>, c), c), c), c), c)

\* Float product a * b.
Mul(a, b) ==
    LET qr == MulParts(Abs(a), Abs(b))
    IN  Sgn(a) * Sgn(b) * Nearest(qr[1], qr[2], Scale)

\* Float quotient a / b, b # 0.
Div(a, b) ==
    LET qr == DivParts(Abs(a), Abs(b))
    IN  Sgn(a) * Sgn(b) * Nearest(qr[1], qr[2], Abs(b))

\* Float quotient of a by the integer n > 0.
DivInt(a, n) == Sgn(a) * Nearest(Abs(a) \div n, Abs(a) % n, n)

\* The largest float r in lo .. hi - 1 with r * r <= a, found by halving.
RECURSIVE SqrtSearch(_, _, _)
SqrtSearch(a, lo, hi) ==
    IF hi - lo <= 1 THEN lo
    ELSE LET mid == (lo + hi) \div 2
             sq  == MulParts(mid, mid)
         IN  IF sq[1] < a \/ (sq[1] = a /\ sq[2] = 0)
             THEN SqrtSearch(a, mid, hi)
             ELSE SqrtSearch(a, lo, mid)

\* The float nearest to the square root of a, for 0 <= a <= 1.
Sqrt(a) ==
    IF a <= 0 THEN 0
    ELSE LET lo == SqrtSearch(a, 0, Scale + 1)
         IN  IF Abs(Mul(lo + 1, lo + 1) - a) < Abs(Mul(lo, lo) - a) THEN lo + 1 ELSE lo

\* pi as a float.
Pi == 314159

\* pi / 2 as a float.
HalfPi == 157080

\* The number of terms the series of sine and cosine are summed to.
TrigTerms == 8

\* The number of terms the series of the arcsine is summed to.
AsinTerms == 12

\* sin(x) / x = 1 - x^2/(2*3) * (1 - x^2/(4*5) * (1 - ...)), from its n-th factor on.
RECURSIVE SinTail(_, _)
SinTail(x2, n) ==
    IF n > TrigTerms THEN Scale
    ELSE Scale - DivInt(Mul(x2, SinTail(x2, n + 1)), (2 * n) * (2 * n + 1))

\* math.sin(x), for |x| <= pi/2.
Sin(x) == Mul(x, SinTail(Mul(x, x), 1))

\* cos(x) = 1 - x^2/(1*2) * (1 - x^2/(3*4) * (1 - ...)), from its n-th factor on.
RECURSIVE CosTail(_, _)
CosTail(x2, n) ==
    IF n > TrigTerms THEN Scale
    ELSE Scale - DivInt(Mul(x2, CosTail(x2, n + 1)), (2 * n - 1) * (2 * n))

\* math.cos(x), for |x| <= pi/2.
Cos(x) == CosTail(Mul(x, x), 1)

\* asin(x) / x = 1 + x^2/6 * (1 + 9 x^2/20 * (1 + 25 x^2/42 * (1 + ...))), from
\* its n-th factor on; used for |x| <= 1/2.
RECURSIVE AsinTail(_, _)
AsinTail(x2, n) ==
    IF n > AsinTerms THEN Scale
    ELSE Scale + DivInt(Mul(x2, AsinTail(x2, n + 1)) * (2 * n - 1) * (2 * n - 1),
                        (2 * n) * (2 * n + 1))

AsinSmall(x) == Mul(x, AsinTail(Mul(x, x), 1))

\* math.asin(x) for -1 <= x <= 1: the series for |x| <= 1/2 and, above it, the
\* reduction asin(x) = pi/2 - 2 asin(sqrt((1 - x) / 2)).
Asin(x) ==
    IF 2 * Abs(x) <= Scale THEN AsinSmall(x)
    ELSE Sgn(x) * (HalfPi - 2 * AsinSmall(Sqrt((Scale - Abs(x)) \div 2)))

\* math.degrees(x) = x * 180 / pi.
Degrees(x) == Div(180 * x, Pi)

\* round(x, 2), as a count of hundredths: nearest, ties to even.
Round2(x) == DivInt(x, Scale \div 100)

\* --------------------------------------------------------- the program ----

\* g = 9.81, the acceleration due to gravity.
g == 981 * (Scale \div 100)

\* num=50: the number of time samples.
num == 50

\* The spacing of the requested distances, in metres.
DistStep == 250 * Scale

\* target_distance values a request may carry.
Distances == { k * DistStep : k \in (-MaxDistSteps) .. MaxDistSteps }

\* velocity values a request may carry (120.0 is the field's default).
Velocities == { -120 * Scale, 0, 60 * Scale, 120 * Scale }

\* The range check with its lower bound forgotten.
InRangeUpperOnly(x) == x <= Scale

\* not -1 <= val <= 1 negated: the argument of arcsin is in range.
InRange(x) == -Scale <= x /\ x <= Scale

\* val = (g * d) / (v**2)
Val(dd, vv) == Div(Mul(g, dd), Mul(vv, vv))

\* The angle without its factor 0.5: the arcsine itself.
AngleRadWhole(x) == Asin(x)

\* angle_rad = 0.5 * math.asin(val)
AngleRad(x) == Mul(Scale \div 2, Asin(x))

\* The time of flight without its factor 2: the time to the apex.
TimeOfFlightToApex(vv, a) == Div(Mul(vv, Sin(a)), g)

\* The time of flight rounded to 2 decimals before it is used.
TimeOfFlightRounded(vv, a) == Round2(Div(Mul(2 * vv, Sin(a)), g)) * (Scale \div 100)

\* time_of_flight = (2 * v * math.sin(angle_rad)) / g
TimeOfFlight(vv, a) == Div(Mul(2 * vv, Sin(a)), g)

\* The samples taken from stop down to 0, as np.linspace(stop, 0) gives them.
LinspaceDownward(stop, k) ==
    IF k = num - 1 THEN 0 ELSE stop - k * DivInt(stop, num - 1)

\* np.linspace(0, stop, num=50)[k]: k * step with step = stop / (num - 1), the
\* last sample being stop itself; a zero step takes numpy's other branch,
\* (k / (num - 1)) * stop.
Linspace(stop, k) ==
    IF k = num - 1 THEN stop
    ELSE LET step == DivInt(stop, num - 1)
         IN  IF step = 0 THEN Mul(Div(k * Scale, (num - 1) * Scale), stop)
             ELSE k * step

\* x = v * math.cos(angle_rad) * t
X(vv, a, tt) == Mul(Mul(vv, Cos(a)), tt)

\* y = v * math.sin(angle_rad) * t - 0.5 * g * (t**2)
Y(vv, a, tt) == Mul(Mul(vv, Sin(a)), tt) - Mul(Mul(Scale \div 2, g), Mul(tt, tt))

\* The test left out: every sample is kept.
KeepAll(yy) == TRUE

\* The test made strict: a sample on the ground is dropped.
KeepAboveOnly(yy) == yy > 0

\* if y >= 0: the sample is above ground.
Keep(yy) == yy >= 0

\* The point put at the front of the list.
EmitFirst(path, p) == <<p>> \o path

\* path_points.append(point)
Emit(path, p) == Append(path, p)

\* {"x": round(x, 2), "y": round(y, 2)}
Point(xx, yy) == [x |-> Round2(xx), y |-> Round2(yy)]

\* The response of a call that returned.
Solution(path, deg, tof) ==
    [status |-> 200, path |-> path,
     calculated_angle |-> Round2(deg), time_of_flight |-> Round2(tof)]

\* HTTPException(status_code=400, detail=...)
TargetUnreachable ==
    [status |-> 400, detail |-> "Target is out of range for the given velocity."]

\* What the framework answers when the handler raises anything else.
ServerError == [status |-> 500, detail |-> "Internal Server Error"]

NoResponse == [status |-> 0]

NoCall == [kind |-> "none"]

VARIABLES
    pc,               \* where the running call stands; "idle" when none runs
    bound,            \* the names bound in the running call's frame
    d, v,             \* data.target_distance, data.velocity
    val, angle_rad, launch_angle_deg, time_of_flight,
    i, t, x, y,       \* the loop: index of the next sample, and its locals
    path_points,
    response,         \* what the call answered
    last              \* the call recorded last, for comparing calls

vars == <<pc, bound, d, v, val, angle_rad, launch_angle_deg, time_of_flight,
          i, t, x, y, path_points, response, last>>

floats == <<val, angle_rad, launch_angle_deg, time_of_flight>>

loop == <<i, t, x, y, path_points>>

\* The last recorded call's list, if that call returned one.
ReusedList ==
    IF last.kind = "call" /\ last.response.status = 200
    THEN last.response.path ELSE <<>>

\* path_points = []
NewList == <<>>

\* A frame with nothing bound: unbound floats read 0 in the model.
Init ==
    /\ pc = "idle"
    /\ bound = {}
    /\ d = 0 /\ v = 0
    /\ val = 0 /\ angle_rad = 0 /\ launch_angle_deg = 0 /\ time_of_flight = 0
    /\ i = 0 /\ t = 0 /\ x = 0 /\ y = 0
    /\ path_points = <<>>
    /\ response = NoResponse
    /\ last = NoCall

\* A request arrives; g, v and d are bound.  The handler awaits nothing, so the
\* event loop runs one call at a time, from its first statement to its answer.
Request(dd, vv) ==
    /\ pc = "idle"
    /\ pc' = "val"
    /\ d' = dd /\ v' = vv
    /\ bound' = {"g", "v", "d"}
    /\ UNCHANGED <<floats, loop, response, last>>

\* val = (g * d) / (v**2); a zero divisor raises ZeroDivisionError, which
\* nothing catches.
ComputeVal ==
    /\ pc = "val"
    /\ IF Mul(v, v) = 0
       THEN /\ pc' = "crashed"
            /\ response' = ServerError
            /\ UNCHANGED <<val, bound>>
       ELSE /\ pc' = "check"
            /\ val' = Val(d, v)
            /\ bound' = bound \cup {"val"}
            /\ UNCHANGED response
    /\ UNCHANGED <<d, v, angle_rad, launch_angle_deg, time_of_flight, loop, last>>

\* if not -1 <= val <= 1: raise HTTPException(400)
CheckRange ==
    /\ pc = "check"
    /\ IF InRange(val)
       THEN pc' = "angle" /\ UNCHANGED response
       ELSE pc' = "failed" /\ response' = TargetUnreachable
    /\ UNCHANGED <<bound, d, v, floats, loop, last>>

\* angle_rad, launch_angle_deg, time_of_flight, then path_points = [].
ComputeAngle ==
    /\ pc = "angle"
    /\ pc' = "loop"
    /\ angle_rad' = AngleRad(val)
    /\ launch_angle_deg' = Degrees(angle_rad')
    /\ time_of_flight' = TimeOfFlight(v, angle_rad')
    /\ path_points' = NewList
    /\ i' = 0
    /\ bound' = bound \cup {"angle_rad", "launch_angle_deg", "time_of_flight",
                            "path_points"}
    /\ UNCHANGED <<d, v, val, t, x, y, response, last>>

\* One iteration of: for t in np.linspace(0, time_of_flight, num=50).
LoopStep ==
    /\ pc = "loop"
    /\ i < num
    /\ t' = Linspace(time_of_flight, i)
    /\ x' = X(v, angle_rad, t')
    /\ y' = Y(v, angle_rad, t')
    /\ path_points' = IF Keep(y') THEN Emit(path_points, Point(x', y'))
                      ELSE path_points
    /\ i' = i + 1
    /\ bound' = bound \cup {"t", "x", "y"}
    /\ UNCHANGED <<pc, d, v, floats, response, last>>

\* return {"path": ..., "calculated_angle": ..., "time_of_flight": ...}
Return ==
    /\ pc = "loop"
    /\ i = num
    /\ pc' = "done"
    /\ response' = Solution(path_points, launch_angle_deg, time_of_flight)
    /\ UNCHANGED <<bound, d, v, floats, loop, last>>

Ended == pc \in {"done", "failed", "crashed"}

\* The frame of a call that ended is dropped.
Drop ==
    /\ pc' = "idle"
    /\ bound' = {}
    /\ d' = 0 /\ v' = 0
    /\ val' = 0 /\ angle_rad' = 0 /\ launch_angle_deg' = 0 /\ time_of_flight' = 0
    /\ i' = 0 /\ t' = 0 /\ x' = 0 /\ y' = 0
    /\ path_points' = <<>>
    /\ response' = NoResponse

\* The call that ended is forgotten.
Finish == Ended /\ Drop /\ UNCHANGED last

\* The call that ended is recorded, to be compared with the calls after it.
FinishRecorded ==
    /\ Ended /\ Drop
    /\ last' = [kind |-> "call", d |-> d, v |-> v, response |-> response]

Step ==
    \/ ComputeVal
    \/ CheckRange
    \/ ComputeAngle
    \/ LoopStep
    \/ Return

Next ==
    \/ \E dd \in Distances, vv \in Velocities : Request(dd, vv)
    \/ Step
    \/ Finish

Spec == Init /\ [][Next]_vars

NextCalls ==
    \/ \E dd \in Distances, vv \in Velocities : Request(dd, vv)
    \/ Step
    \/ Finish
    \/ FinishRecorded

\* Calls one after another, any one of them recorded and compared with those
\* that follow it.
SpecCalls == Init /\ [][NextCalls]_vars

\* ------------------------------------------------------------- claims ----

\* The path of the call that returned.
Path == response.path

Origin == [x |-> 0, y |-> 0]

\* C1: whenever val = (9.81*d)/v^2 is above 1 or below -1 the call fails with
\* TargetUnreachable (400, "Target is out of range for the given velocity."),
\* straight from the range check: it never goes on to the angle, the loop or a
\* solution, and when it has failed no angle, time of flight or path is bound
\* in its frame.
C1_UnreachableFailsFirst ==
    /\ ("val" \in bound /\ (val > Scale \/ val < -Scale))
          => pc \in {"check", "failed"}
    /\ pc = "failed"
          => /\ val > Scale \/ val < -Scale
             /\ response = TargetUnreachable
             /\ bound = {"g", "v", "d", "val"}

C1_Witness == pc = "failed" /\ val < -Scale /\ response.status = 400

\* C2: whenever 0 < val <= 1 the call neither fails nor crashes, and the angle
\* it returns lies in [0, 45] degrees.
C2_ReachableAngleAtMost45 ==
    ("val" \in bound /\ 0 < val /\ val <= Scale)
       => /\ pc \notin {"failed", "crashed"}
          /\ pc = "done"
                => /\ response.status = 200
                   /\ 0 <= response.calculated_angle
                   /\ response.calculated_angle <= 4500

C2_Witness ==
    /\ pc = "done" /\ 2 * val > Scale
    /\ response.status = 200 /\ response.calculated_angle > 2500

\* C3: every point of the path has y >= 0, whatever the signs of the distance
\* and the velocity, and a sample enters the path only when its unrounded
\* height is >= 0: no sub-ground sample is emitted.
C3_NoPointBelowGround ==
    /\ [](\A k \in 1 .. Len(path_points) : path_points[k].y >= 0)
    /\ [](pc = "done" => \A k \in 1 .. Len(Path) : Path[k].y >= 0)
    /\ [][Len(path_points') > Len(path_points) => y' >= 0]_vars

C3_Witness ==
    /\ pc = "done" /\ d < 0 /\ v < 0
    /\ Len(Path) > 1 /\ Len(Path) < num

\* C4 as claimed: the returned path is non-decreasing in x and starts at (0, 0).
C4_PathNonDecreasingInX ==
    pc = "done"
       => /\ Len(Path) >= 1 /\ Path[1] = Origin
          /\ \A k \in 1 .. Len(Path) - 1 : Path[k].x <= Path[k + 1].x

\* C4, amended: the returned path starts at (0, 0) and moves in x towards the
\* target: non-decreasing in x when target_distance >= 0, non-increasing when
\* target_distance <= 0.
C4_PathMonotoneTowardsTarget ==
    pc = "done"
       => /\ Len(Path) >= 1 /\ Path[1] = Origin
          /\ d >= 0 => \A k \in 1 .. Len(Path) - 1 : Path[k].x <= Path[k + 1].x
          /\ d <= 0 => \A k \in 1 .. Len(Path) - 1 : Path[k].x >= Path[k + 1].x

C4_Witness ==
    /\ pc = "done" /\ d < 0
    /\ Len(Path) > 2 /\ Path[2].x < 0 /\ Path[3].x < Path[2].x

\* C5: a call ends in a solution or in TargetUnreachable, never otherwise,
\* velocity = 0 included.
C5_OnlyTargetUnreachable ==
    Ended => response.status = 200 \/ response = TargetUnreachable

ZeroDistanceDone == pc = "done" /\ d = 0 /\ v = 120 * Scale

\* C7 as claimed: for target_distance = 0 and velocity = 120 the angle and the
\* time of flight are 0, every point has y = 0, and the path is the single
\* point (0, 0).
C7_ZeroDistanceSinglePoint ==
    ZeroDistanceDone
       => /\ response.calculated_angle = 0 /\ response.time_of_flight = 0
          /\ \A k \in 1 .. Len(Path) : Path[k].y = 0
          /\ Path = <<Origin>>

\* C7, amended: for target_distance = 0 and velocity = 120 the angle and the
\* time of flight are 0 and the path holds 50 points, each of them (0, 0).
C7_ZeroDistanceFiftyOrigins ==
    ZeroDistanceDone
       => /\ response.status = 200
          /\ response.calculated_angle = 0 /\ response.time_of_flight = 0
          /\ Len(Path) = 50
          /\ \A k \in 1 .. Len(Path) : Path[k] = Origin

C7_Witness == ZeroDistanceDone /\ Len(Path) = 50 /\ Path[50] = Origin

\* The call for target_distance = 500, velocity = 120 has returned.
Scenario1Done == pc = "done" /\ d = 500 * Scale /\ v = 120 * Scale

\* C8 as claimed: for target_distance = 500 and velocity = 120 the angle is
\* 9.97 and the time of flight 4.14, each to within 0.01; the path starts at
\* (0, 0) and ends with a point of y >= 0.
C8_Scenario1AsStated ==
    Scenario1Done
       => /\ Abs(response.calculated_angle - 997) <= 1
          /\ Abs(response.time_of_flight - 414) <= 1
          /\ Len(Path) >= 1 /\ Path[1] = Origin /\ Path[Len(Path)].y >= 0

\* C8, amended: for target_distance = 500 and velocity = 120 the angle is 9.96
\* and the time of flight 4.23; the path starts at (0, 0) and ends with a point
\* of y >= 0; and 4.23 is the time T at which velocity * cos(angle) * T reaches
\* the 500 m of the target (to within 0.1 m).
C8_Scenario1 ==
    Scenario1Done
       => /\ response.status = 200
          /\ response.calculated_angle = 996
          /\ response.time_of_flight = 423
          /\ Len(Path) >= 1 /\ Path[1] = Origin /\ Path[Len(Path)].y >= 0
          /\ 10 * Abs(Mul(Mul(v, Cos(angle_rad)), time_of_flight) - d) <= Scale

C8_Witness ==
    Scenario1Done /\ response.calculated_angle = 996 /\ Len(Path) > 40

\* Whether path holds the points of the samples marked kept, in the order of
\* the samples; sample[k] = [keep |-> ..., point |-> ...] for k in 0 .. num-1.
IsKeptSubsequence(path, sample) ==
    LET kept == {k \in 0 .. num - 1 : sample[k].keep}
        \* the j-th kept sample: j - 1 kept samples come before it
        nth(j) == CHOOSE k \in kept : Cardinality({m \in kept : m < k}) = j - 1
    IN  /\ Len(path) = Cardinality(kept)
        /\ \A j \in 1 .. Len(path) : path[j] = sample[nth(j)].point

\* The num sample times of the call that has returned.
SampleTimes == [k \in 0 .. num - 1 |-> Linspace(time_of_flight, k)]

\* The sample times start at 0, end at the time of flight and are evenly
\* spaced (the last gap to within the rounding of the step).
EvenlySpaced(ts) ==
    /\ ts[0] = 0 /\ ts[num - 1] = time_of_flight
    /\ \A k \in 0 .. num - 3 : ts[k + 1] - ts[k] = ts[1] - ts[0]
    /\ Abs((ts[num - 1] - ts[num - 2]) - (ts[1] - ts[0])) <= num

\* The path is the sub-sequence of the num samples whose height is >= 0.
PathIsKeptSamples(ts) ==
    LET sample == [k \in 0 .. num - 1 |->
                     LET yy == Y(v, angle_rad, ts[k])
                     IN  [keep  |-> yy >= 0,
                          point |-> Point(X(v, angle_rad, ts[k]), yy)]]
    IN  /\ Len(Path) <= num
        /\ IsKeptSubsequence(Path, sample)

\* C9 as claimed: the path is the sub-sequence, in sample order, of the 50
\* evenly spaced samples over [0, T] whose height is >= 0, and the samples are
\* in increasing time order from t = 0.
C9_KeptSamplesInIncreasingTime ==
    pc = "done"
       => LET ts == SampleTimes
          IN  /\ EvenlySpaced(ts)
              /\ PathIsKeptSamples(ts)
              /\ \A k \in 0 .. num - 2 : ts[k] <= ts[k + 1]

\* C9, amended: the path is the sub-sequence, in sample order, of the 50 evenly
\* spaced samples from t = 0 to t = T whose height is >= 0; the sample times
\* increase when T >= 0 and decrease when T <= 0 (a negative distance or a
\* negative velocity gives T < 0).
C9_KeptSamplesInSampleOrder ==
    pc = "done"
       => LET ts == SampleTimes
          IN  /\ EvenlySpaced(ts)
              /\ PathIsKeptSamples(ts)
              /\ time_of_flight >= 0 => \A k \in 0 .. num - 2 : ts[k] <= ts[k + 1]
              /\ time_of_flight <= 0 => \A k \in 0 .. num - 2 : ts[k] >= ts[k + 1]

C9_Witness ==
    /\ pc = "done" /\ time_of_flight < 0
    /\ Len(Path) = num - 1 /\ Path[2] # Origin

\* The height of sample k from the unrounded angle and time of flight.
UnroundedY(k) ==
    LET tt == Linspace(time_of_flight, k)
    IN  Mul(Mul(v, Sin(angle_rad)), tt) - Mul(Mul(Scale \div 2, g), Mul(tt, tt))

\* C10: rounding is the last step.  The angle, its degrees and the time of
\* flight are kept unrounded; the sample times, x and y come from them; a
\* sample is kept when its unrounded y is >= 0; and only the four returned
\* fields are rounded.
C10_RoundingLast ==
    pc = "done"
       => /\ angle_rad = Mul(Scale \div 2, Asin(val))
          /\ launch_angle_deg = Degrees(angle_rad)
          /\ time_of_flight = Div(Mul(2 * v, Sin(angle_rad)), g)
          /\ response.calculated_angle = Round2(launch_angle_deg)
          /\ response.time_of_flight = Round2(time_of_flight)
          /\ LET sample == [k \in 0 .. num - 1 |->
                   LET tt == Linspace(time_of_flight, k)
                       xx == Mul(Mul(v, Cos(angle_rad)), tt)
                       yy == UnroundedY(k)
                   IN  [keep  |-> yy >= 0,
                        point |-> [x |-> Round2(xx), y |-> Round2(yy)]]]
             IN  IsKeptSubsequence(Path, sample)

\* A sample whose unrounded y is below 0 and rounds to 0 was dropped, and the
\* time of flight used for sampling differs from the one returned.
C10_Witness ==
    /\ pc = "done" /\ Len(Path) = num - 1
    /\ UnroundedY(num - 1) < 0 /\ Round2(UnroundedY(num - 1)) = 0
    /\ time_of_flight # response.time_of_flight * (Scale \div 100)
=============================================================================
